---------------------------- MODULE Spec2Model ----------------------------
(***************************************************************************)
(* A model of the LLM pipeline template: the quality score aggregation of  *)
(* QualityChecker.check_quality, the decision chain of AnswerJudge.judge,  *)
(* the stage sequencing of Pipeline.process behind the /process handler,   *)
(* the /classify and /retrieve handlers, and the sliding window of         *)
(* RateLimiter.is_allowed, called one call at a time and by overlapping    *)
(* requests.                                                               *)
(*                                                                         *)
(* Numbers.  The program computes with Python floats; the model keeps      *)
(* them as integers in fixed point:                                        *)
(*   QualityCheck.score            in 1/10000      (0 .. 10000)            *)
(*   overall_score, quality_score  in 1/100 point  (0 .. 10000)            *)
(*   Classification.confidence,                                            *)
(*   GeneratedAnswer.confidence,                                           *)
(*   JudgeDecision.confidence      in 1/100        (0 .. 100)              *)
(*   timestamps, window            in seconds                              *)
(* round(x, 2) is Python's round: to the nearest hundredth, an exact tie   *)
(* going to the even neighbour.  The sets of inputs below hold no value    *)
(* whose exact result is such a tie, where the binary representation of    *)
(* the float, not the decimal value, decides the direction.                *)
(***************************************************************************)
EXTENDS Integers, Sequences, FiniteSets, TLC

VARIABLES
    threshold,          \* AnswerJudge.threshold, from settings.quality_score_threshold
    judge_call,         \* the last call of AnswerJudge.judge, or the request's: arguments, result
    judge_prev,         \* the call of AnswerJudge.judge before that one
    requests,           \* RateLimiter.requests: client -> timestamps, oldest first
    now,                \* the clock datetime.now() reads, in seconds
    admitted,           \* history: client -> the times of all its admitted calls
    last_call,          \* the last call of is_allowed: client, time, result; or Null
    calls,              \* the is_allowed calls in progress: handler -> position and locals
    pc,                 \* where the request being handled stands
    endpoint,           \* the entry point of the request being handled
    query,              \* the sanitized query text the stages are called with
    classification,     \* Classification of the request, or Null
    retrieved_docs,     \* the documents retrieved for the request
    generated,          \* GeneratedAnswer of the request, or Null
    checks,             \* check_quality: the QualityChecks run so far
    quality_result,     \* QualityCheckResult of the request, or Null
    error,              \* the exception in flight, or Null
    response,           \* what the caller receives, or Null
    log,                \* the stages invoked for the request, in order
    lastFailure         \* the failed stage and the response of the last failed request

judgeVars == <<judge_call, judge_prev>>
limiterVars == <<requests, now, admitted, last_call, calls>>
stageVars == <<classification, retrieved_docs, generated, checks, quality_result>>
requestVars == <<pc, endpoint, query, error, response, log, lastFailure>>
vars == <<threshold, judgeVars, limiterVars, stageVars, requestVars>>

Null == [null |-> TRUE]

-----------------------------------------------------------------------------
(* Fixed point arithmetic *)

\* round(num/den) for num >= 0, den > 0: nearest integer, ties to even.
RoundHalfEven(num, den) ==
    LET q == num \div den
        r == num % den
    IN  IF 2 * r < den THEN q
        ELSE IF 2 * r > den THEN q + 1
        ELSE IF q % 2 = 0 THEN q ELSE q + 1

-----------------------------------------------------------------------------
(* src/utils.py *)

\* Texts are sequences of one-character strings.
Whitespace == { " " }

\* The index of the first ">" of s at or after i, or 0.
FirstClose(s, i) ==
    IF \E j \in i..Len(s) : s[j] = ">"
    THEN CHOOSE j \in i..Len(s) : s[j] = ">" /\ \A k \in i..(j - 1) : s[k] # ">"
    ELSE 0

RECURSIVE StripTags(_)
\* re.sub(r"<[^>]+>", "", text): every leftmost "<", one or more characters
\* other than ">", ">" is dropped; what is left is not scanned again.
StripTags(s) ==
    IF s = << >> THEN << >>
    ELSE IF s[1] = "<" /\ FirstClose(s, 2) >= 3
         THEN StripTags(SubSeq(s, FirstClose(s, 2) + 1, Len(s)))
         ELSE << s[1] >> \o StripTags(Tail(s))

RECURSIVE CollapseWhitespace(_, _)
\* " ".join(text.split()): runs of whitespace become one space, leading and
\* trailing whitespace goes.  pending: a space is owed before the next word.
CollapseWhitespace(s, pending) ==
    IF s = << >> THEN << >>
    ELSE IF s[1] \in Whitespace
         THEN CollapseWhitespace(Tail(s), TRUE)
         ELSE (IF pending THEN << " ", s[1] >> ELSE << s[1] >>)
              \o CollapseWhitespace(Tail(s), FALSE)

RECURSIVE DropLeadingSpace(_)
DropLeadingSpace(s) ==
    IF s # << >> /\ s[1] \in Whitespace THEN DropLeadingSpace(Tail(s)) ELSE s

\* sanitize_input: tags out, whitespace collapsed, stripped.
sanitize_input(text) ==
    DropLeadingSpace(CollapseWhitespace(StripTags(text), FALSE))

-----------------------------------------------------------------------------
(* src/rate_limiter.py *)

\* RateLimiter(max_requests, window_seconds), scaled down from the settings'
\* 10 requests per 60 seconds.
MaxRequests == 2
Window == 2
\* The last second the clock reaches.
MaxTime == 4

Clients == { "10.0.0.1", "10.0.0.2" }

\* is_allowed, lines 34-37, with a fixed bucket: only the timestamps of the
\* current window_seconds-long bucket are kept.
purge_fixed_bucket(timestamps, t) ==
    SelectSeq(timestamps, LAMBDA ts : ts \div Window = t \div Window)

\* A purge that keeps a timestamp until it is more than window_seconds old.
purge_keeps_boundary(timestamps, t) ==
    SelectSeq(timestamps, LAMBDA ts : t - ts <= Window)

\* is_allowed, lines 34-37: the timestamps kept, those with now - timestamp
\* < window.
purge(timestamps, t) ==
    SelectSeq(timestamps, LAMBDA ts : t - ts < Window)

\* The limit counted as reached only once it is exceeded.
limit_reached_strict(n) == n > MaxRequests

\* is_allowed, line 40: the limit is reached.
limit_reached(n) == n >= MaxRequests

\* What is_allowed(client_id) returns at the current time.
\* Every client's timestamps kept in the list of one client.
bucket_shared(client_id) == "10.0.0.1"

\* is_allowed, lines 34-35 and 44: the key of self.requests that holds the
\* timestamps of client_id.
bucket(client_id) == client_id

\* The list after a call that records its timestamp whatever the result.
recorded_always(kept, t) == Append(kept, t)

\* is_allowed, lines 40-44: the list after the call; a refused call leaves
\* the purged list, an admitted one appends its timestamp.
recorded(kept, t) == IF limit_reached(Len(kept)) THEN kept ELSE Append(kept, t)

is_allowed(client_id) ==
    ~limit_reached(Len(purge(requests[bucket(client_id)], now)))

\* What is_allowed(client_id) does to the limiter: the purged list is stored
\* and, when the call is admitted, now is appended to it.
IsAllowedEffect(client_id) ==
    LET kept == purge(requests[bucket(client_id)], now)
    IN  /\ requests' = [requests EXCEPT ![bucket(client_id)] = recorded(kept, now)]
        /\ admitted' = [admitted EXCEPT ![client_id] =
                            IF limit_reached(Len(kept)) THEN @
                            ELSE Append(@, now)]
        /\ last_call' = [client |-> client_id, time |-> now,
                         result |-> ~limit_reached(Len(kept))]
        /\ calls' = calls

\* The request handlers that may be inside is_allowed at the same time.
Handlers == { "h1", "h2" }

NotCalling == [pc |-> "idle"]

LimiterInit ==
    /\ requests = [c \in Clients |-> << >>]
    /\ now = 0
    /\ admitted = [c \in Clients |-> << >>]
    /\ last_call = Null
    /\ calls = [h \in Handlers |-> NotCalling]

\* Time passes.
Tick ==
    /\ now < MaxTime
    /\ now' = now + 1
    /\ UNCHANGED <<threshold, judgeVars, requests, admitted, last_call, calls,
                   stageVars, requestVars>>

-----------------------------------------------------------------------------
(* src/answer_judge.py *)

\* The weighted average cut to 2 places instead of rounded.
calculate_decision_confidence_truncated(quality_score, classification_confidence) ==
    (7 * quality_score + 300 * classification_confidence) \div 1000

\* quality_score / 100 * 0.7 + classification_confidence * 0.3, rounded to 2
\* places.  In hundredths: (7 * score + 300 * confidence) / 1000.
calculate_decision_confidence(quality_score, classification_confidence) ==
    RoundHalfEven(7 * quality_score + 300 * classification_confidence, 1000)

\* settings.quality_score_threshold is an int read from the environment;
\* 70 is its default.
DefaultThreshold == 70

\* The (decision, reasoning) pairs the five branches of judge assign.
HighQuality   == [decision  |-> "accept",
                  reasoning |-> "High quality score and high classification confidence"]
MeetsThreshold == [decision  |-> "accept",
                   reasoning |-> "Quality score meets threshold with reasonable confidence"]
Borderline    == [decision  |-> "manual_review",
                  reasoning |-> "Quality score borderline, requires human review"]
ChecksFailed  == [decision  |-> "manual_review",
                  reasoning |-> "Some quality checks failed"]
BelowThreshold == [decision  |-> "reject",
                   reasoning |-> "Quality score below threshold or low confidence"]

\* The if/elif chain of judge, with the second branch accepting on the score alone.
judge_branch_no_confidence(quality_score, passed_all, classification_confidence, T) ==
    IF quality_score >= 9000 /\ classification_confidence >= 80 THEN HighQuality
    ELSE IF quality_score >= T * 100 THEN MeetsThreshold
    ELSE IF quality_score >= 5000 /\ quality_score < T * 100 THEN Borderline
    ELSE IF ~passed_all THEN ChecksFailed
    ELSE BelowThreshold

\* The chain with the borderline branch including the threshold itself.
judge_branch_inclusive(quality_score, passed_all, classification_confidence, T) ==
    IF quality_score >= 9000 /\ classification_confidence >= 80 THEN HighQuality
    ELSE IF quality_score >= T * 100 /\ classification_confidence >= 60 THEN MeetsThreshold
    ELSE IF quality_score >= 5000 /\ quality_score <= T * 100 THEN Borderline
    ELSE IF ~passed_all THEN ChecksFailed
    ELSE BelowThreshold

\* The chain with the failed-checks branch tested before the borderline branch.
judge_branch_swapped(quality_score, passed_all, classification_confidence, T) ==
    IF quality_score >= 9000 /\ classification_confidence >= 80 THEN HighQuality
    ELSE IF quality_score >= T * 100 /\ classification_confidence >= 60 THEN MeetsThreshold
    ELSE IF ~passed_all THEN ChecksFailed
    ELSE IF quality_score >= 5000 /\ quality_score < T * 100 THEN Borderline
    ELSE BelowThreshold

\* AnswerJudge.judge, lines 30-48: the if/elif chain that sets decision and
\* reasoning.  T is self.threshold, in points.
judge_branch(quality_score, passed_all, classification_confidence, T) ==
    IF quality_score >= 9000 /\ classification_confidence >= 80 THEN HighQuality
    ELSE IF quality_score >= T * 100 /\ classification_confidence >= 60 THEN MeetsThreshold
    ELSE IF quality_score >= 5000 /\ quality_score < T * 100 THEN Borderline
    ELSE IF ~passed_all THEN ChecksFailed
    ELSE BelowThreshold

\* AnswerJudge.judge: the chain, then the decision confidence, then the
\* JudgeDecision built from both.
judge(qr, classification_confidence, T) ==
    LET quality_score == qr.overall_score
        branch == judge_branch(quality_score, qr.passed_all,
                               classification_confidence, T)
        decision_confidence ==
            calculate_decision_confidence(quality_score, classification_confidence)
    IN  [decision      |-> branch.decision,
         confidence    |-> decision_confidence,
         reasoning     |-> branch.reasoning,
         quality_score |-> quality_score]

-----------------------------------------------------------------------------
(* src/quality_check.py *)

\* check_criteria, lines 35-56: the names, in definition order.
check_criteria ==
    << "relevance", "completeness", "accuracy", "clarity", "professionalism" >>

RECURSIVE SumScores(_)
\* sum(check.score for check in checks)
SumScores(cs) == IF cs = << >> THEN 0 ELSE cs[1].score + SumScores(Tail(cs))

\* check_quality's result with passed_all true as soon as one check passed.
aggregate_any(cs) ==
    [checks        |-> cs,
     overall_score |-> RoundHalfEven(100 * 100 * SumScores(cs), 10000 * Len(cs)),
     passed_all    |-> \E i \in 1..Len(cs) : cs[i].passed]

\* check_quality, lines 66-73: overall_score = sum / len * 100, rounded to 2
\* places when the result is built; passed_all = all(check.passed).  Scores
\* are in 1/10000 and overall_score in 1/100 point.
aggregate(cs) ==
    [checks        |-> cs,
     overall_score |-> RoundHalfEven(100 * 100 * SumScores(cs), 10000 * Len(cs)),
     passed_all    |-> \A i \in 1..Len(cs) : cs[i].passed]

\* What the model may answer for one criterion and QualityCheck accepts:
\* passed and a score in [0, 1].  Used by the pipeline.
PipelineCheckOutcomes ==
    { [passed |-> TRUE, score |-> 9000], [passed |-> FALSE, score |-> 4000] }

\* The same, with scores whose mean needs rounding.  Used on check_quality
\* alone.
CheckOutcomes == [passed : BOOLEAN, score : {0, 3334, 8333, 10000}]

\* str(e) of the exceptions a collaborator raises.
ErrorMessages == { "Connection error.", "Expecting value" }

\* check_quality is entered with its first call of _run_single_check: the
\* log gets the stage then, and not on the later turns of the loop.
EnterCheckQuality(l) ==
    IF checks = << >> THEN Append(l, "check_quality") ELSE l

\* One turn of the loop of check_quality, lines 59-63: _run_single_check
\* asks the model about the next criterion and appends the QualityCheck.
RunSingleCheck(outcomes) ==
    /\ pc = "check_quality"
    /\ Len(checks) < Len(check_criteria)
    /\ \E o \in outcomes :
          checks' = Append(checks, [check_name |-> check_criteria[Len(checks) + 1],
                                    passed     |-> o.passed,
                                    score      |-> o.score])
    /\ log' = EnterCheckQuality(log)
    /\ UNCHANGED <<threshold, judgeVars, limiterVars,
                   classification, retrieved_docs, generated, quality_result,
                   pc, endpoint, query, error, response, lastFailure>>

\* _run_single_check raises: the API call fails, the answer is no JSON or
\* lacks a key, or QualityCheck rejects the score.  Nothing catches it in
\* check_quality.
RunSingleCheckRaises ==
    /\ pc = "check_quality"
    /\ Len(checks) < Len(check_criteria)
    /\ \E m \in ErrorMessages :
          error' = [stage |-> "quality_check", message |-> m]
    /\ pc' = "raised"
    /\ log' = EnterCheckQuality(log)
    /\ UNCHANGED <<threshold, judgeVars, limiterVars, stageVars,
                   endpoint, query, response, lastFailure>>

\* The loop of check_quality is over: the result is built and returned.
CheckQualityReturn ==
    /\ pc = "check_quality"
    /\ Len(checks) = Len(check_criteria)
    /\ quality_result' = aggregate(checks)
    /\ pc' = "judge"
    /\ UNCHANGED <<threshold, judgeVars, limiterVars,
                   classification, retrieved_docs, generated, checks,
                   endpoint, query, error, response, log, lastFailure>>

-----------------------------------------------------------------------------
(* src/pipeline.py and the /process handler of src/main.py *)

\* What the collaborators may return.  The classifier's answer is whatever
\* the model says, within Classification's bounds.
Classifications ==
    [category : {"general_inquiry"}, confidence : {50, 90}, needs_context : BOOLEAN]
\* retrieve returns at most retrieval_top_k documents, possibly none.
DocLists == { << >>, << "doc1", "doc2" >> }
\* generate's confidence is the model's, 0.8 when it gives none.
GeneratedAnswers ==
    [answer : {"answer"}, sources_used : {<< >>}, confidence : {80}]

\* The query texts of the requests.
QueryTexts == { << "h", "i" >>, << "<", "b", ">", "h", " ", " ", "i", " " >> }

NoStageResults ==
    /\ classification = Null
    /\ retrieved_docs = << >>
    /\ generated = Null
    /\ checks = << >>
    /\ quality_result = Null

RequestInit ==
    /\ pc = "idle"
    /\ endpoint = "none"
    /\ query = << >>
    /\ error = Null
    /\ response = Null
    /\ log = << >>
    /\ lastFailure = Null
    /\ NoStageResults

\* A request is over and the next one may come in.
Idle == pc \in { "idle", "responded" }

\* The failure of the request that just ended, if it ended in one, else the
\* one remembered so far.
RememberFailure ==
    IF pc = "responded" /\ error # Null
    THEN [stage |-> error.stage, response |-> response]
    ELSE lastFailure

\* rate_limiter.check inside the handler's try block: the HTTPException(429)
\* is caught by except Exception and leaves as the handler's status 500.
rate_limit_response_caught ==
    [status |-> 500, detail |-> << "Pipeline error: ", "Rate limit exceeded" >>]

\* RateLimiter.check, lines 59-63: the HTTPException raised on a refusal,
\* which leaves the handler as it is.
rate_limit_response == [status |-> 429, detail |-> << "Rate limit exceeded" >>]

\* A request enters a handler: rate_limiter.check(request), then, when it is
\* admitted, sanitize_input(query.text) and on to the handler's first call
\* at position first.  check raises HTTPException(429) outside the handler's
\* try block.
Enter(ep, client_id, text, first) ==
    /\ Idle
    /\ IsAllowedEffect(client_id)
    /\ endpoint' = ep
    /\ IF is_allowed(client_id)
       THEN /\ query' = sanitize_input(text)
            /\ pc' = first
            /\ response' = Null
       ELSE /\ query' = << >>
            /\ pc' = "responded"
            /\ response' = rate_limit_response
    /\ error' = Null
    /\ log' = << >>
    /\ lastFailure' = RememberFailure
    /\ classification' = Null
    /\ retrieved_docs' = << >>
    /\ generated' = Null
    /\ checks' = << >>
    /\ quality_result' = Null
    /\ judge_call' = Null
    /\ UNCHANGED <<threshold, judge_prev, now>>

\* POST /process: process_query up to the call of pipeline.process.
ProcessQuery(clients, texts) ==
    \E c \in clients, text \in texts : Enter("/process", c, text, "classify")

\* A collaborator call raises and Pipeline.process carries on with the
\* stage after a failed retrieval, its documents empty.
RaiseAndContinue(stage) ==
    /\ \E m \in ErrorMessages : error' = [stage |-> stage, message |-> m]
    /\ pc' = IF stage = "retrieval" THEN "generate" ELSE "raised"

\* A collaborator call raises: the exception leaves Pipeline.process, which
\* catches nothing.
Raise(stage) ==
    /\ \E m \in ErrorMessages : error' = [stage |-> stage, message |-> m]
    /\ pc' = "raised"

\* Retrieval whatever the classification says.
after_classify_always_retrieve(c) == "retrieve"

\* Line 55, if classification.needs_context: retrieval runs only when the
\* classification asks for context.
after_classify(c) == IF c.needs_context THEN "retrieve" ELSE "generate"

\* Step 1, line 48: self.classifier.classify(query) returns; line 54 resets
\* retrieved_docs and line 55 chooses between retrieval and generation.
Classify ==
    /\ pc = "classify"
    /\ endpoint = "/process"
    /\ \E c \in Classifications :
          /\ classification' = c
          /\ pc' = after_classify(c)
    /\ retrieved_docs' = << >>
    /\ log' = Append(log, "classify")
    /\ UNCHANGED <<threshold, judgeVars, limiterVars, generated, checks,
                   quality_result, endpoint, query, error, response, lastFailure>>

ClassifyRaises ==
    /\ pc = "classify"
    /\ endpoint = "/process"
    /\ Raise("classification")
    /\ log' = Append(log, "classify")
    /\ UNCHANGED <<threshold, judgeVars, limiterVars, stageVars,
                   endpoint, query, response, lastFailure>>

\* Step 2, line 57: self.retriever.retrieve(query) returns.
Retrieve ==
    /\ pc = "retrieve"
    /\ endpoint = "/process"
    /\ retrieved_docs' \in DocLists
    /\ pc' = "generate"
    /\ log' = Append(log, "retrieve")
    /\ UNCHANGED <<threshold, judgeVars, limiterVars, classification, generated,
                   checks, quality_result, endpoint, query, error, response,
                   lastFailure>>

RetrieveRaises ==
    /\ pc = "retrieve"
    /\ endpoint = "/process"
    /\ Raise("retrieval")
    /\ log' = Append(log, "retrieve")
    /\ UNCHANGED <<threshold, judgeVars, limiterVars, stageVars,
                   endpoint, query, response, lastFailure>>

\* Step 3, line 64: self.generator.generate(query, classification,
\* retrieved_docs) returns; check_quality is called next, line 70.
Generate ==
    /\ pc = "generate"
    /\ generated' \in GeneratedAnswers
    /\ pc' = "check_quality"
    /\ checks' = << >>
    /\ log' = Append(log, "generate")
    /\ UNCHANGED <<threshold, judgeVars, limiterVars, classification,
                   retrieved_docs, quality_result, endpoint, query, error,
                   response, lastFailure>>

GenerateRaises ==
    /\ pc = "generate"
    /\ Raise("generation")
    /\ log' = Append(log, "generate")
    /\ UNCHANGED <<threshold, judgeVars, limiterVars, stageVars,
                   endpoint, query, response, lastFailure>>

\* The arguments Pipeline.process passes to the judge with the generator's
\* confidence in place of the classifier's.
judge_args_generator_confidence ==
    [quality_result |-> quality_result,
     classification_confidence |-> generated.confidence]

\* Line 78: self.judge.judge(quality_result, classification.confidence).
judge_args ==
    [quality_result |-> quality_result,
     classification_confidence |-> classification.confidence]

\* Lines 86-98: the result Pipeline.process returns (without its timing).
pipeline_result(decision) ==
    [query          |-> query,
     classification |-> classification,
     retrieved_docs |-> retrieved_docs,
     answer         |-> generated.answer,
     quality_checks |-> quality_result,
     judge_decision |-> decision,
     metadata       |-> [sources_used         |-> generated.sources_used,
                         generator_confidence |-> generated.confidence]]

\* Step 5 and the return: the judge decides, the result is built, and
\* process_query returns it.
Judge ==
    /\ pc = "judge"
    /\ LET a == judge_args
           d == judge(a.quality_result, a.classification_confidence, threshold)
       IN  /\ judge_call' = [args |-> a, result |-> d]
           /\ response' = [status |-> 200, body |-> pipeline_result(d)]
    /\ pc' = "responded"
    /\ log' = Append(log, "judge")
    /\ UNCHANGED <<threshold, judge_prev, limiterVars, stageVars,
                   endpoint, query, error, lastFailure>>

\* The detail of the HTTPException process_query raises for exception e:
\* f"Pipeline error: {str(e)}", with the failed stage named in it.
pipeline_error_detail_tagged(e) == << "Pipeline error: ", e.stage, e.message >>

\* The detail of the HTTPException process_query raises for exception e,
\* line 99: f"Pipeline error: {str(e)}".
pipeline_error_detail(e) == << "Pipeline error: ", e.message >>

\* Lines 96-100 of process_query: except Exception turns whatever left
\* pipeline.process into HTTPException(500).
ProcessQueryExcept ==
    /\ pc = "raised"
    /\ endpoint = "/process"
    /\ response' = [status |-> 500, detail |-> pipeline_error_detail(error)]
    /\ pc' = "responded"
    /\ UNCHANGED <<threshold, judgeVars, limiterVars, stageVars,
                   endpoint, query, error, log, lastFailure>>

\* POST /classify: classify_only up to the call of the classifier.
ClassifyOnly(clients, texts) ==
    \E c \in clients, text \in texts : Enter("/classify", c, text, "classify")

\* classify_only, lines 118-119: pipeline.classifier.classify(clean_text)
\* returns and the handler returns classification.model_dump().
ClassifyOnlyReturn ==
    /\ pc = "classify"
    /\ endpoint = "/classify"
    /\ \E c \in Classifications :
          /\ classification' = c
          /\ response' = [status |-> 200, body |-> c]
    /\ pc' = "responded"
    /\ log' = Append(log, "classify")
    /\ UNCHANGED <<threshold, judgeVars, limiterVars, retrieved_docs, generated,
                   checks, quality_result, endpoint, query, error, lastFailure>>

ClassifyOnlyRaises ==
    /\ pc = "classify"
    /\ endpoint = "/classify"
    /\ Raise("classification")
    /\ log' = Append(log, "classify")
    /\ UNCHANGED <<threshold, judgeVars, limiterVars, stageVars,
                   endpoint, query, response, lastFailure>>

\* classify_only, lines 121-125: except Exception raises HTTPException(500,
\* f"Classification error: {str(e)}").
ClassifyOnlyExcept ==
    /\ pc = "raised"
    /\ endpoint = "/classify"
    /\ response' = [status |-> 500,
                    detail |-> << "Classification error: ", error.message >>]
    /\ pc' = "responded"
    /\ UNCHANGED <<threshold, judgeVars, limiterVars, stageVars,
                   endpoint, query, error, log, lastFailure>>

\* POST /retrieve: retrieve_only up to the call of the retriever.
RetrieveOnly(clients, texts) ==
    \E c \in clients, text \in texts : Enter("/retrieve", c, text, "retrieve")

\* retrieve_only, lines 143-144: pipeline.retriever.retrieve(clean_text)
\* returns and the handler returns the query with the documents.
RetrieveOnlyReturn ==
    /\ pc = "retrieve"
    /\ endpoint = "/retrieve"
    /\ \E docs \in DocLists :
          /\ retrieved_docs' = docs
          /\ response' = [status |-> 200,
                          body |-> [query |-> query, retrieved_docs |-> docs]]
    /\ pc' = "responded"
    /\ log' = Append(log, "retrieve")
    /\ UNCHANGED <<threshold, judgeVars, limiterVars, classification, generated,
                   checks, quality_result, endpoint, query, error, lastFailure>>

RetrieveOnlyRaises ==
    /\ pc = "retrieve"
    /\ endpoint = "/retrieve"
    /\ Raise("retrieval")
    /\ log' = Append(log, "retrieve")
    /\ UNCHANGED <<threshold, judgeVars, limiterVars, stageVars,
                   endpoint, query, response, lastFailure>>

\* retrieve_only, lines 146-150: except Exception raises HTTPException(500,
\* f"Retrieval error: {str(e)}").
RetrieveOnlyExcept ==
    /\ pc = "raised"
    /\ endpoint = "/retrieve"
    /\ response' = [status |-> 500,
                    detail |-> << "Retrieval error: ", error.message >>]
    /\ pc' = "responded"
    /\ UNCHANGED <<threshold, judgeVars, limiterVars, stageVars,
                   endpoint, query, error, log, lastFailure>>

PipelineClients == { "10.0.0.1" }

\* The /process entry point, its requests handled one after the other (the
\* handler is a coroutine that never awaits, so a request runs to its
\* response before the next one starts).  The requests come in at one
\* instant of the clock: the limiter admits the first MaxRequests of them.
Init ==
    /\ threshold = DefaultThreshold
    /\ judge_call = Null
    /\ judge_prev = Null
    /\ LimiterInit
    /\ RequestInit

Next ==
    \/ ProcessQuery(PipelineClients, QueryTexts)
    \/ Classify
    \/ ClassifyRaises
    \/ Retrieve
    \/ RetrieveRaises
    \/ Generate
    \/ GenerateRaises
    \/ RunSingleCheck(PipelineCheckOutcomes)
    \/ RunSingleCheckRaises
    \/ CheckQualityReturn
    \/ Judge
    \/ ProcessQueryExcept

Spec == Init /\ [][Next]_vars

-----------------------------------------------------------------------------
(* check_quality on its own, from its call to its return or its exception *)

\* UserQuery.text, Field(..., min_length=1, max_length=1000): the bounds the
\* request body is validated against before a handler runs.
MinLength == 1
MaxLength == 1000

UserQuery(text) == Len(text) >= MinLength /\ Len(text) <= MaxLength

\* The texts callers send: among them an empty one, texts of blanks or tags
\* only, and one that is a character too long.
SentTexts ==
    QueryTexts \cup { << >>, << " " >>, << "<", "b", ">" >>,
                      [i \in 1..(MaxLength + 1) |-> "a"] }

\* The texts that pass the validation of the request body; for the others
\* the handler is never called.
ValidTexts == { text \in SentTexts : UserQuery(text) }

\* The three entry points behind the rate limiter, with request bodies that
\* passed validation, their requests handled one after the other.
ApiNext ==
    \/ ProcessQuery(PipelineClients, ValidTexts)
    \/ ClassifyOnly(PipelineClients, ValidTexts)
    \/ RetrieveOnly(PipelineClients, ValidTexts)
    \/ Classify
    \/ ClassifyRaises
    \/ Retrieve
    \/ RetrieveRaises
    \/ Generate
    \/ GenerateRaises
    \/ RunSingleCheck(PipelineCheckOutcomes)
    \/ RunSingleCheckRaises
    \/ CheckQualityReturn
    \/ Judge
    \/ ProcessQueryExcept
    \/ ClassifyOnlyReturn
    \/ ClassifyOnlyRaises
    \/ ClassifyOnlyExcept
    \/ RetrieveOnlyReturn
    \/ RetrieveOnlyRaises
    \/ RetrieveOnlyExcept

ApiSpec == Init /\ [][ApiNext]_vars

-----------------------------------------------------------------------------
(* check_quality on its own *)

QualityInit ==
    /\ threshold = DefaultThreshold
    /\ judge_call = Null
    /\ judge_prev = Null
    /\ LimiterInit
    /\ pc = "check_quality"
    /\ endpoint = "none"
    /\ query = << "h", "i" >>
    /\ error = Null
    /\ response = Null
    /\ log = << >>
    /\ lastFailure = Null
    /\ NoStageResults

QualityNext ==
    \/ RunSingleCheck(CheckOutcomes)
    \/ RunSingleCheckRaises
    \/ CheckQualityReturn

QualitySpec == QualityInit /\ [][QualityNext]_vars

-----------------------------------------------------------------------------
(* The rate limiter on its own: calls of is_allowed, one at a time, as the
   clock advances *)

LimiterSpecInit ==
    /\ threshold = DefaultThreshold
    /\ judge_call = Null
    /\ judge_prev = Null
    /\ LimiterInit
    /\ RequestInit

\* One call of RateLimiter.is_allowed, from its first line to its return.
IsAllowedCall ==
    /\ \E c \in Clients : IsAllowedEffect(c)
    /\ UNCHANGED <<threshold, judgeVars, now, stageVars, requestVars>>

LimiterNext ==
    \/ Tick
    \/ IsAllowedCall

LimiterSpec == LimiterSpecInit /\ [][LimiterNext]_vars

-----------------------------------------------------------------------------
(* RateLimiter.is_allowed called by requests that overlap (spec section 5:
   each request is handled independently, potentially overlapping with
   others).  is_allowed takes no lock, so the calls interleave between its
   statements: reading the clock, building the purged list, storing it,
   testing the length of the stored list, appending *)

\* The admissions a client may have before no further call is begun.
MaxAdmitted == 3

RaceClients == { "10.0.0.1" }

RaceFrame == UNCHANGED <<threshold, judgeVars, now, stageVars, requestVars>>

\* is_allowed, line 31: now = datetime.now()
BeginCall(h, c) ==
    /\ calls[h].pc = "idle"
    /\ Len(admitted[c]) < MaxAdmitted
    /\ calls' = [calls EXCEPT ![h] = [pc |-> "purge", client |-> c, now |-> now]]
    /\ UNCHANGED <<requests, admitted, last_call>>
    /\ RaceFrame

\* is_allowed, lines 34-37, the right-hand side: the list comprehension over
\* the stored list.
BuildPurged(h) ==
    /\ calls[h].pc = "purge"
    /\ calls' = [calls EXCEPT ![h] =
                    [pc |-> "store", client |-> @.client, now |-> @.now,
                     kept |-> purge(requests[bucket(@.client)], @.now)]]
    /\ UNCHANGED <<requests, admitted, last_call>>
    /\ RaceFrame

\* is_allowed, line 34: the assignment to self.requests[client_id].
StorePurged(h) ==
    /\ calls[h].pc = "store"
    /\ requests' = [requests EXCEPT ![bucket(calls[h].client)] = calls[h].kept]
    /\ calls' = [calls EXCEPT ![h] =
                    [pc |-> "check", client |-> @.client, now |-> @.now]]
    /\ UNCHANGED <<admitted, last_call>>
    /\ RaceFrame

\* is_allowed, lines 40-41: the length of the stored list is tested; at the
\* limit the call returns False.
CheckLimit(h) ==
    /\ calls[h].pc = "check"
    /\ IF limit_reached(Len(requests[bucket(calls[h].client)]))
       THEN /\ calls' = [calls EXCEPT ![h] = NotCalling]
            /\ last_call' = [client |-> calls[h].client, time |-> calls[h].now,
                             result |-> FALSE]
       ELSE /\ calls' = [calls EXCEPT ![h] =
                            [pc |-> "append", client |-> @.client, now |-> @.now]]
            /\ last_call' = last_call
    /\ UNCHANGED <<requests, admitted>>
    /\ RaceFrame

\* is_allowed, lines 44-45: the timestamp is appended and the call returns
\* True.
AppendNow(h) ==
    /\ calls[h].pc = "append"
    /\ requests' = [requests EXCEPT ![bucket(calls[h].client)] =
                            Append(@, calls[h].now)]
    /\ admitted' = [admitted EXCEPT ![calls[h].client] = Append(@, calls[h].now)]
    /\ last_call' = [client |-> calls[h].client, time |-> calls[h].now,
                     result |-> TRUE]
    /\ calls' = [calls EXCEPT ![h] = NotCalling]
    /\ RaceFrame

RaceNext ==
    \/ Tick
    \/ \E h \in Handlers, c \in RaceClients : BeginCall(h, c)
    \/ \E h \in Handlers : BuildPurged(h)
    \/ \E h \in Handlers : StorePurged(h)
    \/ \E h \in Handlers : CheckLimit(h)
    \/ \E h \in Handlers : AppendNow(h)

RaceSpec == LimiterSpecInit /\ [][RaceNext]_vars

-----------------------------------------------------------------------------
(* The judge on its own: every call draws its arguments afresh. *)

ThresholdValues == {40, DefaultThreshold, 96}

\* overall_score values, in hundredths of a point: the fixed bounds of the
\* chain (50, 90), each threshold, and their neighbours.
ScoreValues == {0, 3999, 4000, 4999, 5000, 6999, 7000, 8990, 9000, 9599, 9600,
                10000}
\* classification confidence values, in hundredths.
ConfidenceValues == {50, 59, 60, 79, 80}

JudgeArgs ==
    [quality_result : [checks : {<< >>}, overall_score : ScoreValues,
                       passed_all : BOOLEAN],
     classification_confidence : ConfidenceValues]

JudgeInit ==
    /\ threshold \in ThresholdValues
    /\ judge_call = Null
    /\ judge_prev = Null
    /\ LimiterInit
    /\ RequestInit

\* One call of AnswerJudge.judge on arguments of the caller's choice.
JudgeCall ==
    \E a \in JudgeArgs :
        /\ judge_call' = [args   |-> a,
                          result |-> judge(a.quality_result,
                                           a.classification_confidence, threshold)]
        /\ judge_prev' = judge_call
        /\ UNCHANGED <<threshold, limiterVars, stageVars, requestVars>>

JudgeNext == JudgeCall

JudgeSpec == JudgeInit /\ [][JudgeNext]_vars

-----------------------------------------------------------------------------
(* Claims about AnswerJudge.judge, checked under JudgeSpec *)

\* The guards of the five rules as the specification lists them, each taken
\* on its own: rule i applies when Guard(...)[i] holds.
RuleGuards(s, p, c, T) ==
    << s >= 9000 /\ c >= 80,
       s >= T * 100 /\ c >= 60,
       5000 <= s /\ s < T * 100,
       ~p,
       TRUE >>

RuleOutcomes == << HighQuality, MeetsThreshold, Borderline, ChecksFailed, BelowThreshold >>

\* The first rule whose guard holds.
FirstMatch(s, p, c, T) ==
    CHOOSE i \in 1..5 :
        /\ RuleGuards(s, p, c, T)[i]
        /\ \A j \in 1..(i - 1) : ~RuleGuards(s, p, c, T)[j]

CallScore(call) == call.args.quality_result.overall_score
CallPassed(call) == call.args.quality_result.passed_all
CallConfidence(call) == call.args.classification_confidence

\* C1: judge is a first-match-wins chain over the five rules: the decision
\* and reasoning returned are those of the first rule whose guard holds, for
\* every score, passed_all, confidence and threshold, and the decision is
\* always one of accept, reject, manual_review.
C1_FirstMatchWins ==
    judge_call # Null =>
        LET r == judge_call.result
            i == FirstMatch(CallScore(judge_call), CallPassed(judge_call),
                            CallConfidence(judge_call), threshold)
        IN  /\ r.decision = RuleOutcomes[i].decision
            /\ r.reasoning = RuleOutcomes[i].reasoning
            /\ r.decision \in {"accept", "reject", "manual_review"}

\* judge(89.9, true, 0.8) with threshold 70: accepted by rule 2, not rule 1.
C1_Witness ==
    /\ judge_call # Null
    /\ threshold = 70
    /\ CallScore(judge_call) = 8990
    /\ CallConfidence(judge_call) = 80
    /\ judge_call.result.decision = "accept"
    /\ judge_call.result.reasoning = MeetsThreshold.reasoning

\* C2: a score equal to the threshold with confidence below 0.6 never gets
\* the borderline rule: the result is manual_review "Some quality checks
\* failed" when passed_all is false and reject otherwise.
C2_ThresholdNotBorderline ==
    (/\ judge_call # Null
     /\ CallScore(judge_call) = threshold * 100
     /\ CallConfidence(judge_call) < 60)
    => LET r == judge_call.result
       IN  /\ r.reasoning # Borderline.reasoning
           /\ ~CallPassed(judge_call) =>
                  r.decision = "manual_review" /\ r.reasoning = ChecksFailed.reasoning
           /\ CallPassed(judge_call) => r.decision = "reject"

\* judge(70, true, 0.59) with threshold 70 is rejected.
C2_Witness ==
    /\ judge_call # Null
    /\ threshold = 70
    /\ CallScore(judge_call) = 7000
    /\ CallConfidence(judge_call) = 59
    /\ CallPassed(judge_call)
    /\ judge_call.result.decision = "reject"

\* C3: with threshold 70, every score in [50, 70) gets manual_review with
\* the borderline reasoning, whatever passed_all and the confidence are.
C3_BorderlineBeforeFailedChecks ==
    (/\ judge_call # Null
     /\ threshold = 70
     /\ CallScore(judge_call) >= 5000
     /\ CallScore(judge_call) < 7000)
    => /\ judge_call.result.decision = "manual_review"
       /\ judge_call.result.reasoning = Borderline.reasoning

\* judge(50, false, 0.8) with threshold 70: both rule 3 and rule 4 apply.
C3_Witness ==
    /\ judge_call # Null
    /\ threshold = 70
    /\ CallScore(judge_call) = 5000
    /\ ~CallPassed(judge_call)
    /\ CallConfidence(judge_call) = 80
    /\ judge_call.result.reasoning = Borderline.reasoning

\* x = round(num / den): x is an integer no further than 1/2 from num / den.
IsNearest(x, num, den) == 2 * x * den - 2 * num \in (0 - den)..den

\* C4: the confidence of the decision is round(score/100 * 0.7 +
\* confidence * 0.3, 2) whichever rule fired, and two calls with the same
\* score and confidence get the same value whatever passed_all is.
C4_DecisionConfidence ==
    /\ judge_call # Null =>
          IsNearest(judge_call.result.confidence,
                    7 * CallScore(judge_call) + 300 * CallConfidence(judge_call), 1000)
    /\ (/\ judge_call # Null
        /\ judge_prev # Null
        /\ CallScore(judge_call) = CallScore(judge_prev)
        /\ CallConfidence(judge_call) = CallConfidence(judge_prev))
       => judge_call.result.confidence = judge_prev.result.confidence

\* Two calls on (49.99, 0.79), one with passed_all (rejected) and one without
\* (manual_review): both at 0.59, rounded up from 0.58693.
C4_Witness ==
    /\ judge_call # Null
    /\ judge_prev # Null
    /\ threshold = 96
    /\ CallScore(judge_call) = 4999
    /\ CallScore(judge_prev) = 4999
    /\ CallConfidence(judge_call) = 79
    /\ CallConfidence(judge_prev) = 79
    /\ judge_call.result.decision = "reject"
    /\ judge_prev.result.decision = "manual_review"
    /\ judge_call.result.confidence = 59
    /\ judge_prev.result.confidence = 59

-----------------------------------------------------------------------------
(* Claims about QualityChecker.check_quality, checked under QualitySpec *)

\* C5: the result of check_quality holds the 5 fixed criteria in definition
\* order, its overall_score is 100 times the mean of their scores rounded to
\* 2 places, and passed_all is true exactly when every check passed.
C5_Aggregation ==
    quality_result # Null =>
        LET cs == quality_result.checks
        IN  /\ cs = checks
            /\ [i \in 1..Len(cs) |-> cs[i].check_name] =
                   << "relevance", "completeness", "accuracy", "clarity",
                      "professionalism" >>
            /\ IsNearest(quality_result.overall_score, SumScores(cs), 5)
            /\ quality_result.passed_all <=> (\A i \in 1..5 : cs[i].passed)

\* Scores 0.8333, 0.8333, 0.8333, 0.8333 and 1.0, the last check failed:
\* 86.664 rounds to 86.66, and passed_all is false though four checks passed.
C5_Witness ==
    /\ quality_result # Null
    /\ SumScores(quality_result.checks) = 43332
    /\ quality_result.overall_score = 8666
    /\ quality_result.checks[1].passed
    /\ ~quality_result.checks[5].passed
    /\ ~quality_result.passed_all

-----------------------------------------------------------------------------
(* Claims about Pipeline.process and process_query, checked under Spec *)

InLog(s) == \E i \in 1..Len(log) : log[i] = s

IsPrefix(s, u) == Len(s) <= Len(u) /\ s = SubSeq(u, 1, Len(s))

\* C6: when the classification has needs_context false, the retriever is not
\* invoked for the request and the documents the later stages and the
\* result get are empty.
C6_RetrievalSkipped ==
    (classification # Null /\ ~classification.needs_context)
    => /\ ~InLog("retrieve")
       /\ pc # "retrieve"
       /\ retrieved_docs = << >>
       /\ (response # Null /\ response.status = 200)
             => response.body.retrieved_docs = << >>

\* A request classified as needing no context has run to its result.
C6_Witness ==
    /\ classification # Null
    /\ ~classification.needs_context
    /\ response # Null
    /\ response.status = 200
    /\ log = << "classify", "generate", "check_quality", "judge" >>

\* C7: the stages of a request are invoked in the order classify, retrieve
\* (only when needs_context), generate, check_quality, judge, each at most
\* once and only once the stage before it has returned its result; the
\* judge gets the request's QualityCheckResult and the confidence of the
\* request's classification.
C7_StageOrder ==
    /\ IsPrefix(log, IF classification # Null /\ classification.needs_context
                     THEN << "classify", "retrieve", "generate", "check_quality", "judge" >>
                     ELSE << "classify", "generate", "check_quality", "judge" >>)
    /\ (InLog("retrieve") \/ InLog("generate")) => classification # Null
    /\ InLog("check_quality") => generated # Null
    /\ InLog("judge") =>
          /\ quality_result # Null
          /\ quality_result.checks = checks
          /\ Len(checks) = 5
          /\ judge_call.args.quality_result = quality_result
          /\ judge_call.args.classification_confidence = classification.confidence
          /\ response.body.judge_decision = judge_call.result

\* A request that needed context has run all five stages.
C7_Witness ==
    /\ log = << "classify", "retrieve", "generate", "check_quality", "judge" >>
    /\ retrieved_docs = << "doc1", "doc2" >>
    /\ classification.confidence = 90
    /\ generated.confidence = 80
    /\ response.status = 200

\* The name Pipeline.process gives the stage a failure is reported for.
StageName ==
    [classification |-> "classify", retrieval |-> "retrieve",
     generation |-> "generate", quality_check |-> "check_quality"]

\* C8: once a collaborator has failed, no stage is invoked for the request
\* any more, the failed stage included, and the caller gets one failure and
\* no result.
C8_FailureAborts ==
    /\ [](error # Null =>
            /\ log # << >>
            /\ log[Len(log)] = StageName[error.stage]
            /\ pc \in { "raised", "responded" }
            /\ judge_call = Null
            /\ response # Null => (response.status = 500 /\ DOMAIN response = { "status", "detail" }))
    /\ [][(error # Null /\ error' # Null) =>
            (log' = log /\ error' = error /\ stageVars' = stageVars
             /\ (response # Null => response' = response))]_vars

\* Retrieval has failed and the caller has its failure.
C8_Witness ==
    /\ error # Null
    /\ error.stage = "retrieval"
    /\ log = << "classify", "retrieve" >>
    /\ pc = "responded"
    /\ response.status = 500

FailedNow == pc = "responded" /\ error # Null

\* C9 as stated: the failure names the failed stage, so that the failures of
\* two different stages are told apart by what the caller receives.
C9_StageTagged ==
    (FailedNow /\ lastFailure # Null /\ lastFailure.stage # error.stage)
    => lastFailure.response # response

\* C9, amended: the failure is status 500 with the detail "Pipeline error: "
\* followed by the message of the cause and nothing else: two failures with
\* the same message are the same response whichever stages failed.
C9_CauseOnly ==
    /\ FailedNow =>
          response = [status |-> 500, detail |-> << "Pipeline error: ", error.message >>]
    /\ (FailedNow /\ lastFailure # Null
          /\ lastFailure.response.detail[2] = error.message)
       => lastFailure.response = response

\* A failed classification, then a failed generation with the same message:
\* the caller received the same response twice.
C9_Witness ==
    /\ FailedNow
    /\ lastFailure # Null
    /\ lastFailure.stage = "classification"
    /\ error.stage = "generation"
    /\ lastFailure.response = response

-----------------------------------------------------------------------------
(* Claims about RateLimiter.is_allowed, checked under LimiterSpec *)

\* The number of admitted calls of client c at the times t, ..., t + Window - 1:
\* a span of window_seconds.
AdmittedIn(c, t) ==
    Cardinality({ i \in 1..Len(admitted[c]) :
                    admitted[c][i] >= t /\ admitted[c][i] < t + Window })

\* C10: for every client, no span of window_seconds holds more than
\* max_requests admitted calls, wherever the span starts.
C10_SlidingWindow ==
    \A c \in Clients : \A t \in 0..MaxTime : AdmittedIn(c, t) <= MaxRequests

\* max_requests admissions in the last second of one span of window_seconds
\* counted from 0, and the call in the first second of the next is refused.
C10_Witness ==
    \E c \in Clients :
        /\ Len(admitted[c]) = MaxRequests
        /\ \A i \in 1..MaxRequests : admitted[c][i] = Window - 1
        /\ now = Window
        /\ last_call = [client |-> c, time |-> Window, result |-> FALSE]

\* The number of admitted calls of client c that are less than window_seconds
\* old at time t.
RecentlyAdmitted(c, t) ==
    Cardinality({ i \in 1..Len(admitted[c]) : t - admitted[c][i] < Window })

\* C11: a call is refused only when max_requests calls of the client were
\* admitted less than window_seconds before it, and an admitted call never
\* takes that number above max_requests: from an empty history the first
\* max_requests calls within the window are admitted, the next call in the
\* window is refused, and a call made once the window has elapsed since
\* those admissions is admitted again.
C11_AdmitRefuseAdmit ==
    last_call # Null =>
        LET c == last_call.client
            n == RecentlyAdmitted(c, last_call.time)
        IN  IF last_call.result
            THEN /\ n <= MaxRequests
                 /\ admitted[c][Len(admitted[c])] = last_call.time
            ELSE n = MaxRequests

\* max_requests calls admitted at time 0 and, window_seconds later, the next
\* one admitted again.
C11_Witness ==
    \E c \in Clients :
        /\ Len(admitted[c]) = MaxRequests + 1
        /\ \A i \in 1..MaxRequests : admitted[c][i] = 0
        /\ last_call = [client |-> c, time |-> Window, result |-> TRUE]

C13_DenialStopsRequest ==
    /\ (last_call # Null /\ ~last_call.result) =>
            /\ pc = "responded"
            /\ response = [status |-> 429, detail |-> << "Rate limit exceeded" >>]
            /\ log = << >>
            /\ NoStageResults
            /\ judge_call = Null
            /\ error = Null
    /\ (response # Null /\ response.status = 500) =>
            /\ last_call # Null
            /\ last_call.result
            /\ log # << >>
            /\ error # Null
    /\ (log # << >> \/ ~Idle) => (last_call # Null /\ last_call.result)

\* A request to /retrieve has been refused.
C13_Witness ==
    /\ endpoint = "/retrieve"
    /\ last_call # Null
    /\ ~last_call.result
    /\ response # Null
    /\ response.status = 429
    /\ log = << >>

\* C14: the query text a stage is invoked with is sanitized and is 1 to
\* 1000 characters long, never empty.
C14_StagesGetValidQuery ==
    log # << >> =>
        /\ query = sanitize_input(query)
        /\ Len(query) >= MinLength
        /\ Len(query) <= MaxLength

\* The step is an is_allowed call (under LimiterSpec the only steps that
\* leave the clock alone); last_call' describes it.
IsCallStep == now' = now /\ last_call' # Null

Count(seq, v) == Cardinality({ i \in 1..Len(seq) : seq[i] = v })

\* C15: a refused call records nothing: every timestamp stored for the client
\* after it was stored before it and is still inside the window, so a
\* refusal never prolongs the block; an admitted call adds exactly one
\* timestamp, the current time, at the end of the list.
C15_RefusalNotRecorded ==
    [][IsCallStep =>
        LET before == requests[last_call'.client]
            after == requests'[last_call'.client]
        IN  IF last_call'.result
            THEN /\ Len(after) >= 1
                 /\ after[Len(after)] = now
                 /\ Count(after, now) = Count(before, now) + 1
                 /\ \A i \in 1..Len(after) :
                        after[i] # now => Count(after, after[i]) <= Count(before, after[i])
            ELSE /\ \A i \in 1..Len(after) :
                        /\ Count(after, after[i]) <= Count(before, after[i])
                        /\ now - after[i] < Window
                 /\ Len(after) <= Len(before)
                 /\ admitted' = admitted]_vars

\* A client with a full list of earlier timestamps has just been refused, and
\* the list holds no timestamp of the refused call.
C15_Witness ==
    /\ last_call # Null
    /\ ~last_call.result
    /\ Len(requests[last_call.client]) = MaxRequests
    /\ \A i \in 1..MaxRequests : requests[last_call.client][i] < last_call.time

\* The timestamps a call found and kept: the list after the call without the
\* timestamp the call itself appended.
KeptByCall ==
    LET after == requests'[last_call'.client]
    IN  IF last_call'.result THEN SubSeq(after, 1, Len(after) - 1) ELSE after

\* C16 as stated: a call purges exactly the timestamps below now - window; a
\* timestamp whose age equals the window is kept and counted.
C16_PurgedOlderThanWindow ==
    [][IsCallStep =>
        /\ KeptByCall = SelectSeq(requests[last_call'.client],
                                  LAMBDA ts : ~(ts < now - Window))
        /\ last_call'.result = (Len(KeptByCall) < MaxRequests)]_vars

\* C16 amended: a call purges exactly the timestamps at or below
\* now - window, that is those whose age is the window or more; the
\* timestamps younger than the window are kept, in order, and counted
\* against max_requests.
C16_PurgedAtWindowAge ==
    [][IsCallStep =>
        /\ KeptByCall = SelectSeq(requests[last_call'.client],
                                  LAMBDA ts : ~(ts <= now - Window))
        /\ last_call'.result = (Len(KeptByCall) < MaxRequests)]_vars

\* One call admitted at time 0; the call made window_seconds later has
\* purged its timestamp, though the list was below the limit.
C16_Witness ==
    \E c \in Clients :
        /\ admitted[c] = << 0, Window >>
        /\ requests[c] = << Window >>
        /\ last_call = [client |-> c, time |-> Window, result |-> TRUE]

\* C17: a call for one client leaves the stored list of every other client
\* unchanged, and at any time the result a call for client b would have is
\* fixed by b's own earlier admissions and the current time.
C17_PerClientIsolation ==
    /\ [](\A b \in Clients :
            is_allowed(b) = (RecentlyAdmitted(b, now) < MaxRequests))
    /\ [][IsCallStep =>
            \A b \in Clients \ { last_call'.client } :
                requests'[b] = requests[b]]_vars

\* One client is blocked, and a call for another client at the same time
\* has just been admitted.
C17_Witness ==
    \E a, b \in Clients :
        /\ a # b
        /\ ~is_allowed(a)
        /\ requests[a] = [i \in 1..MaxRequests |-> now]
        /\ requests[b] = << now >>
        /\ last_call = [client |-> b, time |-> now, result |-> TRUE]

=============================================================================
